---- MODULE Spec2Model ----
(***************************************************************************)
(* The device control protocol of the LZMA2 FPGA driver                    *)
(* (src/src/device/pcie_trait_impl.rs, src/src/device/pcie.rs).            *)
(*                                                                         *)
(* One PcieDevice session runs compress / decompress calls.  Every call of *)
(* a register primitive (read_register, write_register, read_chunk,        *)
(* write_chunk) is one step of the model, because every one of them can    *)
(* fail and end the call.  The variables below the call's own state record *)
(* what a RegisterPort sees during the current call: which accesses were   *)
(* made, at which offsets, with which data.                                *)
(***************************************************************************)
EXTENDS Naturals, Integers, Sequences, FiniteSets, TLC

VARIABLES
    config,            \* PcieDevice.config
    registers,         \* PcieDevice.registers (RegisterMap)
    transfer_strategy, \* PcieDevice.transfer_strategy
    op,                \* the call in progress: "none", "compress", "decompress"
    input,             \* the call's input buffer, [len, fill]
    pc,                \* position of the call in its code
    i,                 \* loop index of the loop the call is in
    output,            \* read_output_data's output vector, as the chunks appended
    result,            \* the value the call returned, Pending before it returns
    writes,            \* write_register calls of this call, in order: <<[offset, value]>>
    regReads,          \* read_register calls of this call, counted by offset
    nIdleReads,        \* status reads that returned a value with neither bit 0 nor bit 16
    lastStatus,        \* <<value>> of the last successful status read, <<>> before it
    lastCode,          \* <<value>> of the last successful read of status + 4, <<>> before it
    nChunkWrites,      \* write_chunk calls of this call
    lastChunkWrite,    \* the last write_chunk call: [offset, data]
    nChunkReads,       \* read_chunk calls of this call
    lastChunkRead,     \* the last read_chunk call: [offset, len]
    failures,          \* primitive calls of this call that returned Err
    metrics,           \* get_performance_metrics' PerformanceMetrics value
    counterLog,        \* what the port answered to the counter reads: <<[offset, value]>>
    args,              \* the arguments of the function or test that is run apart from a device
    ret                \* what that function returned, or where that test stands

vars == <<config, registers, transfer_strategy, op, input, pc, i, output, result,
          writes, regReads, nIdleReads, lastStatus, lastCode, nChunkWrites,
          lastChunkWrite, nChunkReads, lastChunkRead, failures, metrics,
          counterLog, args, ret>>

session == <<config, registers, transfer_strategy>>

\* the state of whatever runs apart from the device
apart == <<args, ret>>

\* the state of the session, its call and its port
device == <<config, registers, transfer_strategy, op, input, pc, i, output, result,
            writes, regReads, nIdleReads, lastStatus, lastCode, nChunkWrites,
            lastChunkWrite, nChunkReads, lastChunkRead, failures, metrics,
            counterLog>>

----
(* Bounds of the model *)

\* decompress and compress are called with every input length 0..MaxInputLen
\* (and with the lengths around the 32 KB block)
MaxInputLen == 40

\* the device reports completion (bit 0) only on one of the first DoneWindow
\* polls or on the last poll of the retry budget
DoneWindow == 2

\* pad_or_truncate is applied to every slice of at most MaxSliceLen bytes
MaxSliceLen == 3

\* and to every target length up to MaxTargetLen
MaxTargetLen == 5

\* record_transfer is called at most MaxCalls times on one TransferStatistics
MaxCalls == 2

----
(* Program constants *)

BLOCK_SIZE == 32768

COMPRESS_CHUNK == 256

DECOMPRESS_CHUNK == 32

OUTPUT_CHUNK == 256

MAX_RETRIES == 1000

RESET_BIT == 31

START_BIT == 0

MODE_BIT == 16

COMPLETE_BIT == 0

ERROR_BIT == 16

ERROR_CODE_OFFSET == 4

NANOS_PER_SEC == 1000000000

\* the distance the driver puts between one register and the next
REGISTER_STRIDE == 4

\* the counters get_performance_metrics reads
COUNTER_REGISTERS == 5

None == "None"

Pending == [ok |-> FALSE, pending |-> TRUE]

TransferStrategy == {"Mmio", "Dma", "Streaming"}

\* A register value (u64) is the set of the positions of its 1 bits, so that
\* bit 31 and above are exact.

\* 1 << k
Bit(k) == {k}

\* a | b
BitOr(a, b) == a \cup b

\* a & b
BitAnd(a, b) == a \cap b

\* the register value 0
Zero == {}

\* v & (1 << k) != 0
BitSet(v, k) == BitAnd(v, Bit(k)) # Zero

\* the number a register value is
RECURSIVE ToNat(_)
ToNat(v) ==
    IF v = {} THEN 0
    ELSE LET k == CHOOSE x \in v : TRUE IN 2 ^ k + ToNat(v \ {k})

\* the width of a u64
U64_BITS == 64

\* the carry into bit k of a + b
Carry(a, b, k) ==
    \E j \in 0 .. (k - 1) :
        /\ j \in a
        /\ j \in b
        /\ \A m \in (j + 1) .. (k - 1) : m \in a \/ m \in b

\* bit k of a + b
SumBit(a, b, k) == ((k \in a) # (k \in b)) # Carry(a, b, k)

\* the low width bits of a + b
AddBits(a, b, width) == {k \in 0 .. (width - 1) : SumBit(a, b, k)}

\* a.wrapping_add(b): the sum modulo 2^64
WrappingAdd(a, b) == AddBits(a, b, U64_BITS)

\* a.checked_add(b).is_none(): the sum does not fit a u64
Overflows(a, b) == Carry(a, b, U64_BITS)

\* a < b
Less(a, b) ==
    \E k \in b \ a : \A m \in (a \cup b) : m > k => (m \in a <=> m \in b)

----
(* Errors: src/src/error.rs *)

InputValidationError(ctx) == [kind |-> "InputValidationError", ctx |-> ctx]

TransferError(ctx) == [kind |-> "TransferError", ctx |-> ctx]

ProcessingError(ctx) == [kind |-> "ProcessingError", ctx |-> ctx]

DeviceAccessError == [kind |-> "DeviceAccessError", ctx |-> None]

DeviceInitError(ctx) == [kind |-> "DeviceInitError", ctx |-> ctx]

CrcError == [kind |-> "CrcError", ctx |-> None]

TimeoutError == [kind |-> "TimeoutError", ctx |-> None]

\* a match that takes only transfer errors for recoverable
is_recoverable_TransferOnly(e) == e.kind = "TransferError"

\* ErrorExt::is_recoverable: the match over the seven variants
is_recoverable(e) ==
    CASE e.kind = "TimeoutError" -> TRUE
      [] e.kind = "TransferError" -> TRUE
      [] e.kind = "DeviceInitError" -> FALSE
      [] e.kind = "ProcessingError" -> FALSE
      [] e.kind = "DeviceAccessError" -> FALSE
      [] e.kind = "CrcError" -> FALSE
      [] e.kind = "InputValidationError" -> FALSE

Ok(v) == [ok |-> TRUE, pending |-> FALSE, val |-> v]

\* a call that does not return: the thread panics with the message
Panic(msg) == [ok |-> FALSE, pending |-> FALSE, err |-> [kind |-> "panic", ctx |-> msg]]

\* a + b on u64: a build with overflow checks panics when the sum does not
\* fit, a build without them wraps
U64Add(a, b) ==
    IF Overflows(a, b)
    THEN {Panic("attempt to add with overflow"), Ok(WrappingAdd(a, b))}
    ELSE {Ok(WrappingAdd(a, b))}

Err(e) == [ok |-> FALSE, pending |-> FALSE, err |-> e]

\* format!("{}", n) of an unsigned integer: its decimal digits, most significant first
RECURSIVE Decimal(_)
Decimal(n) == IF n < 10 THEN <<n>> ELSE Append(Decimal(n \div 10), n % 10)

\* the number a digit sequence denotes
RECURSIVE ParseDecimal(_)
ParseDecimal(ds) ==
    IF ds = <<>> THEN 0
    ELSE 10 * ParseDecimal(SubSeq(ds, 1, Len(ds) - 1)) + ds[Len(ds)]

\* format!(prefix {}) : the literal text followed by the digits of n
Format(prefix, n) == [text |-> prefix, digits |-> Decimal(n)]

----
(* Buffers *)

Min(a, b) == IF a < b THEN a ELSE b

\* the input lengths the calls are made with
InputLens == (0 .. MaxInputLen) \cup {BLOCK_SIZE - 1, BLOCK_SIZE, BLOCK_SIZE + 1}

\* an input buffer is given by its length and its content: all zero bytes
\* (as in test_compression_roundtrip) or a ramp of non-zero bytes whose
\* period divides no chunk size
Inputs == [len : InputLens, fill : {"zeros", "ramp"}]

\* input[k], 0 <= k < input.len
InputByte(in, k) == IF in.fill = "zeros" THEN 0 ELSE (k % 251) + 1

\* slice.chunks(size).count()
NumChunks(len, size) == (len + size - 1) \div size

\* every chunk taken from the start of the buffer
Chunk_FromStart(in, size, n) ==
    [j \in 1 .. Min(size, in.len - n * size) |-> InputByte(in, j - 1)]

\* slice.chunks(size).nth(n): consecutive, non-overlapping, the last one shorter
\* when size does not divide the length
Chunk(in, size, n) ==
    [j \in 1 .. Min(size, in.len - n * size) |-> InputByte(in, n * size + j - 1)]

\* the chunk written as it is, without padding
padded_chunk_Unpadded(chunk) == chunk

\* let mut padded_chunk = [0u8; 32]; padded_chunk[..chunk.len()].copy_from_slice(chunk)
padded_chunk(chunk) ==
    [j \in 1 .. DECOMPRESS_CHUNK |-> IF j <= Len(chunk) THEN chunk[j] ELSE 0]

\* iter().take(n): the first n elements, all of them when there are fewer
take(s, n) == SubSeq(s, 1, Min(Len(s), n))

\* Vec::resize(new_len, value): cut to new_len, or filled up with value
resize(v, new_len, value) ==
    IF Len(v) < new_len
    THEN v \o [j \in 1 .. (new_len - Len(v)) |-> value]
    ELSE SubSeq(v, 1, new_len)

\* the copy alone, without the fill
pad_or_truncate_CopyOnly(s, length) == take(s, length)

\* ByteSliceExt::pad_or_truncate
pad_or_truncate(s, length) ==
    LET vec == take(s, length)
    IN  IF Len(vec) < length THEN resize(vec, length, 0) ELSE vec

\* Vec<u8>::len() of a vector built by extend_from_slice of the chunks read
RECURSIVE BufLen(_)
BufLen(chunks) ==
    IF Len(chunks) = 0 THEN 0
    ELSE IF Len(chunks) = 1 THEN chunks[1].len
    ELSE LET h == Len(chunks) \div 2
         IN  BufLen(SubSeq(chunks, 1, h)) + BufLen(SubSeq(chunks, h + 1, Len(chunks)))

----
(* RegisterPort: the four primitives *)

\* values a device register can hold when read
RegisterValues ==
    {Zero, Bit(COMPLETE_BIT), Bit(1), Bit(ERROR_BIT),
     BitOr(Bit(COMPLETE_BIT), Bit(ERROR_BIT))}

\* what a working port answers to a register read
PortRead(offset) == {Ok(v) : v \in RegisterValues}

\* what a working port answers to a write
PortWrite == {Ok("unit")}

\* what a working port answers to a chunk read: the buffer filled with the
\* len bytes of device memory at offset
PortReadChunk(offset, len) == {Ok([offset |-> offset, len |-> len])}

\* the device holds the completion bit back outside the window the bound names
DeviceAnswers(r, poll) ==
    IF r.ok
    THEN ~BitSet(r.val, COMPLETE_BIT) \/ poll <= DoneWindow \/ poll = MAX_RETRIES
    ELSE TRUE

\* the placeholder bodies return Err(DeviceAccessError); the platform's port
\* is what their TODO stands for
read_register(offset) == {Err(DeviceAccessError)} \cup PortRead(offset)

write_register(offset, value) == {Err(DeviceAccessError)} \cup PortWrite

read_chunk(offset, len) == {Err(DeviceAccessError)} \cup PortReadChunk(offset, len)

write_chunk(offset, data) == {Err(DeviceAccessError)} \cup PortWrite

\* the port's record of the read_register calls, by offset
Reads(o) == IF o \in DOMAIN regReads THEN regReads[o] ELSE 0

CountRead(o) ==
    IF o \in DOMAIN regReads THEN [regReads EXCEPT ![o] = @ + 1]
    ELSE regReads @@ (o :> 1)

RECURSIVE SumReads(_)
SumReads(S) ==
    IF S = {} THEN 0
    ELSE LET o == CHOOSE x \in S : TRUE IN regReads[o] + SumReads(S \ {o})

\* all primitive calls of the current call
Accesses == Len(writes) + SumReads(DOMAIN regReads) + nChunkWrites + nChunkReads

----
(* Metrics: src/src/device/metrics.rs *)

\* x as f32 / y as f32, kept as the pair it is the quotient of; the rounding
\* of the casts and of the division is monotone, so it changes neither the
\* order of a quotient with 0 and 1 nor whether it is 0
Quot(x, y) == [num |-> x, den |-> y]

\* 0.0
F32Zero == Quot(Zero, Bit(0))

\* 1.0
F32One == Quot(Bit(0), Bit(0))

\* r == 0.0
IsZero(r) == r.num = Zero

\* 0.0 <= r && r <= 1.0
InUnitInterval(r) == r.den # Zero /\ ~Less(r.den, r.num)

\* the ratio taken over the misses alone
HitRatio_OverMisses(hits, misses, total) ==
    IF total # Zero THEN Quot(hits, misses) ELSE F32Zero

\* if total > 0 { self.hits as f32 / total as f32 } else { 0.0 }
HitRatio(hits, misses, total) ==
    IF total # Zero THEN Quot(hits, total) ELSE F32Zero

\* CacheMetrics::calculate_hit_ratio: the CacheMetrics values it can leave,
\* or the panic of the addition
calculate_hit_ratio(cache) ==
    {IF total.ok
     THEN Ok([cache EXCEPT !.hit_ratio = HitRatio(cache.hits, cache.misses, total.val)])
     ELSE total : total \in U64Add(cache.hits, cache.misses)}

\* PerformanceMetrics::calculate_compression_ratio
calculate_compression_ratio(m) ==
    [m EXCEPT !.compression_ratio =
        IF m.total_bytes_processed # Zero
        THEN Quot(m.compressed_bytes, m.total_bytes_processed)
        ELSE F32One]

\* CacheMetrics::default()
default_cache_metrics == [hits |-> Zero, misses |-> Zero, hit_ratio |-> F32Zero]

\* PerformanceMetrics::default()
default_metrics ==
    [total_bytes_processed |-> Zero, compressed_bytes |-> Zero,
     compression_ratio |-> F32Zero, cycles |-> Zero,
     cache_metrics |-> default_cache_metrics,
     literal_count |-> Zero, match_hits |-> Zero]

----
(* Transfer statistics: src/src/transfer/mod.rs *)

\* the u64 a small number is
FromNat(n) == {k \in 0 .. 30 : (n \div 2 ^ k) % 2 = 1}

\* the value fits a u64
FitsU64(v) == \A k \in v : k < U64_BITS

\* a + b, not cut to 64 bits
WideAdd(a, b) == AddBits(a, b, U64_BITS + 8)

\* std::time::Duration: whole seconds (u64) and nanoseconds below one second
Duration(secs, nanos) == [secs |-> secs, nanos |-> nanos]

\* Duration::default()
ZeroDuration == Duration(Zero, 0)

\* Duration::MAX
MaxDuration == Duration(0 .. (U64_BITS - 1), NANOS_PER_SEC - 1)

\* the sum of two durations, its seconds not cut to 64 bits
DurationSum(a, b) ==
    LET n == a.nanos + b.nanos
    IN  IF n >= NANOS_PER_SEC
        THEN Duration(WideAdd(WideAdd(a.secs, b.secs), Bit(0)), n - NANOS_PER_SEC)
        ELSE Duration(WideAdd(a.secs, b.secs), n)

\* a += b on Duration: checked_add, which panics when the seconds do not fit
DurationAdd(a, b) ==
    IF FitsU64(DurationSum(a, b).secs)
    THEN Ok(DurationSum(a, b))
    ELSE Panic("overflow when adding durations")

\* an f64 kept as the quotient it is of: bytes / 1e6 / seconds of per
Rate(bytes, per) == [bytes |-> bytes, per |-> per]

\* 0.0 as f64
F64Zero == Rate(Zero, Duration(Bit(0), 0))

\* the quotient taken whatever the duration
Bandwidth_Unguarded(bytes, duration) == Rate(bytes, duration)

\* if seconds > 0.0 { (bytes as f64 / 1_000_000.0) / seconds } else { 0.0 }
Bandwidth(bytes, duration) ==
    IF duration # ZeroDuration THEN Rate(bytes, duration) ELSE F64Zero

\* TransferMetrics::default()
default_transfer_metrics ==
    [total_bytes |-> Zero, transfer_time |-> ZeroDuration, bandwidth |-> F64Zero,
     chunk_count |-> 0]

\* TransferStatistics::record_transfer: the metrics it can leave, or the
\* panic of one of its additions; chunk_count stays far below 2^64
record_transfer(m, bytes, duration) ==
    {IF ~total.ok THEN total
     ELSE IF ~DurationAdd(m.transfer_time, duration).ok
          THEN DurationAdd(m.transfer_time, duration)
          ELSE Ok([total_bytes |-> total.val,
                   transfer_time |-> DurationAdd(m.transfer_time, duration).val,
                   chunk_count |-> m.chunk_count + 1,
                   bandwidth |-> Bandwidth(bytes, duration)]) :
        total \in U64Add(m.total_bytes, bytes)}

----
(* The session: PcieDevice::new *)

new_config == [vendor_id |-> 4660, device_id |-> 22136, bar_index |-> 0]

\* a register map whose windows lie apart from each other and from the registers
new_registers_Apart ==
    [control |-> 0, status |-> 4, input_data |-> 65536, output_data |-> 131072,
     performance_counters |-> 32]

new_registers ==
    [control |-> 0, status |-> 4, input_data |-> 8, output_data |-> 12,
     performance_counters |-> 32]

\* a call starts with a port record that has seen nothing
NoAccessYet ==
    /\ writes' = <<>>
    /\ regReads' = <<>>
    /\ nIdleReads' = 0
    /\ lastStatus' = <<>>
    /\ lastCode' = <<>>
    /\ nChunkWrites' = 0
    /\ lastChunkWrite' = None
    /\ nChunkReads' = 0
    /\ lastChunkRead' = None
    /\ failures' = 0
    /\ output' = <<>>
    /\ i' = 0

\* nothing runs apart from the device
NoCall == [fn |-> "none"]

Init ==
    /\ config = new_config
    /\ registers = new_registers
    /\ transfer_strategy = "Mmio"
    /\ op = "none"
    /\ input = None
    /\ pc = "idle"
    /\ i = 0
    /\ output = <<>>
    /\ result = Pending
    /\ writes = <<>>
    /\ regReads = <<>>
    /\ nIdleReads = 0
    /\ lastStatus = <<>>
    /\ lastCode = <<>>
    /\ nChunkWrites = 0
    /\ lastChunkWrite = None
    /\ nChunkReads = 0
    /\ lastChunkRead = None
    /\ failures = 0
    /\ metrics = default_metrics
    /\ counterLog = <<>>
    /\ args = NoCall
    /\ ret = <<>>

\* a session whose strategy field holds any variant of the enum
InitAnyStrategy ==
    /\ config = new_config
    /\ registers = new_registers
    /\ transfer_strategy \in TransferStrategy
    /\ op = "none" /\ input = None /\ pc = "idle" /\ i = 0 /\ output = <<>>
    /\ result = Pending /\ writes = <<>> /\ regReads = <<>> /\ nIdleReads = 0
    /\ lastStatus = <<>> /\ lastCode = <<>> /\ nChunkWrites = 0
    /\ lastChunkWrite = None /\ nChunkReads = 0 /\ lastChunkRead = None
    /\ failures = 0 /\ metrics = default_metrics /\ counterLog = <<>>
    /\ args = NoCall /\ ret = <<>>

----
(* compress, decompress: validation *)

\* a size check that only rejects short inputs
CompressInputValid_AtLeast(len) == len >= BLOCK_SIZE

\* input.len() != 32 * 1024 is the error case
CompressInputValid(len) == len = BLOCK_SIZE

\* the emptiness check left out
DecompressInputValid_Unchecked(len) == len >= 0

\* input.is_empty() is the error case
DecompressInputValid(len) == len # 0

\* compress entered on a session whose call may still be running
compress_Reentrant(in) ==
    /\ op' = "compress"
    /\ input' = in
    /\ NoAccessYet
    /\ IF ~CompressInputValid(in.len)
       THEN /\ result' = Err(InputValidationError(
                    Format("Input size must be 32KB. Current size: ", in.len)))
            /\ pc' = "done"
       ELSE /\ result' = Pending
            /\ pc' = "reset_set"
    /\ UNCHANGED <<session, metrics, counterLog, apart>>

\* the call blocks its caller until it returns, and a PcieDevice, which
\* holds a raw pointer and is not Clone, belongs to one thread: a call is
\* entered only when no call of the session is running
compress(in) ==
    /\ pc = "idle"
    /\ op' = "compress"
    /\ input' = in
    /\ NoAccessYet
    /\ IF ~CompressInputValid(in.len)
       THEN /\ result' = Err(InputValidationError(
                    Format("Input size must be 32KB. Current size: ", in.len)))
            /\ pc' = "done"
       ELSE /\ result' = Pending
            /\ pc' = "reset_set"
    /\ UNCHANGED <<session, metrics, counterLog, apart>>

decompress(in) ==
    /\ pc = "idle"
    /\ op' = "decompress"
    /\ input' = in
    /\ NoAccessYet
    /\ IF ~DecompressInputValid(in.len)
       THEN /\ result' = Err(InputValidationError("Compressed data is empty"))
            /\ pc' = "done"
       ELSE /\ result' = Pending
            /\ pc' = "reset_set"
    /\ UNCHANGED <<session, metrics, counterLog, apart>>

----
(* reset *)

\* the two values of the reset pulse in the other order
ResetValue_ClearFirst(step) == IF step = "reset_set" THEN Zero ELSE Bit(RESET_BIT)

\* the value of the reset's first and second control write
ResetValue(step) == IF step = "reset_set" THEN Bit(RESET_BIT) ELSE Zero

\* a failed primitive call tried again instead of ending the call
Propagate_Retry(r, next) ==
    /\ pc' = IF r.ok THEN next ELSE pc
    /\ result' = result
    /\ failures' = IF r.ok THEN failures ELSE failures + 1

\* the primitive's result dropped: the call goes on after an Err
Propagate_Ignored(r, next) ==
    /\ pc' = next
    /\ result' = result
    /\ failures' = IF r.ok THEN failures ELSE failures + 1

\* a primitive returned r: `?` returns an Err from the call unchanged
Propagate(r, next) ==
    IF r.ok
    THEN /\ pc' = next
         /\ result' = result
         /\ failures' = failures
    ELSE /\ pc' = "done"
         /\ result' = r
         /\ failures' = failures + 1

reset ==
    /\ pc \in {"reset_set", "reset_clear"}
    /\ \E r \in write_register(registers.control, ResetValue(pc)) :
        /\ writes' = Append(writes, [offset |-> registers.control,
                                     value |-> ResetValue(pc)])
        /\ Propagate(r, IF pc = "reset_set" THEN "reset_clear" ELSE "load")
    /\ UNCHANGED <<session, metrics, counterLog, apart, op, input, i, output, regReads, nIdleReads, lastStatus,
                   lastCode, nChunkWrites, lastChunkWrite, nChunkReads, lastChunkRead>>

----
(* transfer_input_data, transfer_compressed_data *)

\* the index used as the offset, the chunk size forgotten
ChunkOffset_Index(base, n, size) == base + n

\* self.registers.input_data + (i * size) as u64
ChunkOffset(base, n, size) == base + n * size

\* one iteration of the loop over input.chunks(size): chunk i is written as
\* data; the loop ends after the last chunk
WriteChunkStep(size, data) ==
    LET offset == ChunkOffset(registers.input_data, i, size) IN
    \E r \in write_chunk(offset, data) :
        /\ nChunkWrites' = nChunkWrites + 1
        /\ lastChunkWrite' = [offset |-> offset, data |-> data]
        /\ IF r.ok /\ i + 1 < NumChunks(input.len, size)
           THEN /\ i' = i + 1
                /\ UNCHANGED <<pc, result, failures>>
           ELSE /\ i' = 0
                /\ Propagate(r, "start")

\* the unsupported strategies as a silent no-op
Unsupported_Silent ==
    /\ pc' = "start"
    /\ UNCHANGED <<i, nChunkWrites, lastChunkWrite, failures, result>>

\* _ => return Err(Lzma2Error::TransferError("Unsupported transfer strategy"))
Unsupported ==
    /\ result' = Err(TransferError("Unsupported transfer strategy"))
    /\ pc' = "done"
    /\ UNCHANGED <<i, nChunkWrites, lastChunkWrite, failures>>

transfer_input_data ==
    /\ pc = "load"
    /\ op = "compress"
    /\ IF transfer_strategy = "Mmio"
       THEN WriteChunkStep(COMPRESS_CHUNK, Chunk(input, COMPRESS_CHUNK, i))
       ELSE Unsupported
    /\ UNCHANGED <<session, metrics, counterLog, apart, op, input, output, writes, regReads, nIdleReads,
                   lastStatus, lastCode, nChunkReads, lastChunkRead>>

transfer_compressed_data ==
    /\ pc = "load"
    /\ op = "decompress"
    /\ IF transfer_strategy = "Mmio"
       THEN WriteChunkStep(DECOMPRESS_CHUNK,
                           padded_chunk(Chunk(input, DECOMPRESS_CHUNK, i)))
       ELSE Unsupported
    /\ UNCHANGED <<session, metrics, counterLog, apart, op, input, output, writes, regReads, nIdleReads,
                   lastStatus, lastCode, nChunkReads, lastChunkRead>>

----
(* start_compression, start_decompression *)

\* 1  // Compression start bit
CompressionStart == Bit(START_BIT)

\* (1 << 0) | (1 << 16)  // Decompression mode + start bit
DecompressionStart == BitOr(Bit(START_BIT), Bit(MODE_BIT))

StartStep(value) ==
    /\ \E r \in write_register(registers.control, value) :
        /\ writes' = Append(writes, [offset |-> registers.control, value |-> value])
        /\ Propagate(r, "poll")
    /\ UNCHANGED <<session, metrics, counterLog, apart, op, input, i, output, regReads, nIdleReads, lastStatus,
                   lastCode, nChunkWrites, lastChunkWrite, nChunkReads, lastChunkRead>>

start_compression ==
    /\ pc = "start"
    /\ op = "compress"
    /\ StartStep(CompressionStart)

start_decompression ==
    /\ pc = "start"
    /\ op = "decompress"
    /\ StartStep(DecompressionStart)

----
(* wait_for_completion *)

\* a status word with both bits taken for a failure
PollOutcome_BothIsError(status) ==
    IF BitSet(status, COMPLETE_BIT) /\ ~BitSet(status, ERROR_BIT) THEN "complete"
    ELSE IF BitSet(status, ERROR_BIT) THEN "error"
    ELSE "continue"

\* any bit of the status word taken for completion
PollOutcome_AnyBit(status) == IF status # Zero THEN "complete" ELSE "continue"

\* the error bit tested before the completion bit
PollOutcome_ErrorFirst(status) ==
    IF BitSet(status, ERROR_BIT) THEN "error"
    ELSE IF BitSet(status, COMPLETE_BIT) THEN "complete"
    ELSE "continue"

\* what one iteration of the poll loop does with the status it read
PollOutcome(status) ==
    IF BitSet(status, COMPLETE_BIT) THEN "complete"
    ELSE IF BitSet(status, ERROR_BIT) THEN "error"
    ELSE "continue"

\* an inclusive range, 0..=MAX_RETRIES: one poll too many
LastRetry_Inclusive(n) == n >= MAX_RETRIES

\* the loop runs for _ in 0..MAX_RETRIES: iteration i is the last one when
\* i + 1 reaches MAX_RETRIES
LastRetry(n) == n + 1 >= MAX_RETRIES

\* the message made of the status word instead of the error code
ProcessingMessage_Status(error_code) ==
    Format("Processing error: Error code ", ToNat(Bit(ERROR_BIT)))

\* format!("Processing error: Error code {}", error_code)
ProcessingMessage(error_code) ==
    Format("Processing error: Error code ", ToNat(error_code))

\* one iteration: the status read and the branch taken on it
PollStep ==
    /\ pc = "poll"
    /\ \E r \in {x \in read_register(registers.status) : DeviceAnswers(x, i + 1)} :
        /\ regReads' = CountRead(registers.status)
        /\ lastStatus' = IF r.ok THEN <<r.val>> ELSE lastStatus
        /\ IF ~r.ok
           THEN /\ Propagate(r, pc)
                /\ UNCHANGED <<i, nIdleReads>>
           ELSE CASE PollOutcome(r.val) = "complete" ->
                       /\ pc' = "read"
                       /\ i' = 0
                       /\ UNCHANGED <<result, failures, nIdleReads>>
                  [] PollOutcome(r.val) = "error" ->
                       /\ pc' = "error_code"
                       /\ UNCHANGED <<i, result, failures, nIdleReads>>
                  [] OTHER ->
                       /\ nIdleReads' = nIdleReads + 1
                       /\ failures' = failures
                       /\ IF LastRetry(i)
                          THEN /\ pc' = "done"
                               /\ result' = Err(TimeoutError)
                               /\ i' = i
                          ELSE /\ pc' = pc
                               /\ result' = result
                               /\ i' = i + 1
    /\ UNCHANGED lastCode

\* the error branch: the read of the error code and the error made of it
ErrorCodeStep ==
    /\ pc = "error_code"
    /\ \E r \in read_register(registers.status + ERROR_CODE_OFFSET) :
        /\ regReads' = CountRead(registers.status + ERROR_CODE_OFFSET)
        /\ lastCode' = IF r.ok THEN <<r.val>> ELSE lastCode
        /\ pc' = "done"
        /\ IF r.ok
           THEN /\ result' = Err(ProcessingError(ProcessingMessage(r.val)))
                /\ failures' = failures
           ELSE /\ result' = r
                /\ failures' = failures + 1
    /\ UNCHANGED <<i, nIdleReads, lastStatus>>

\* a wait that clears the control register when the device reported an error
wait_for_completion_WithStop ==
    /\ PollStep \/ ErrorCodeStep
    /\ writes' = IF pc = "error_code"
                 THEN Append(writes, [offset |-> registers.control, value |-> Zero])
                 ELSE writes
    /\ UNCHANGED <<session, metrics, counterLog, apart, op, input, output,
                   nChunkWrites, lastChunkWrite, nChunkReads, lastChunkRead>>

wait_for_completion ==
    /\ PollStep \/ ErrorCodeStep
    /\ UNCHANGED <<session, metrics, counterLog, apart, op, input, output, writes, nChunkWrites, lastChunkWrite,
                   nChunkReads, lastChunkRead>>

----
(* read_output_data *)

\* 32 * 1024 / 256
OutputChunks == BLOCK_SIZE \div OUTPUT_CHUNK

\* one iteration of for i in 0..(32 * 1024 / 256): a chunk of 256 bytes is read
\* at output_data + i * 256 and appended to the output
read_output_data ==
    /\ pc = "read"
    /\ LET offset == ChunkOffset(registers.output_data, i, OUTPUT_CHUNK) IN
       \E r \in read_chunk(offset, OUTPUT_CHUNK) :
        /\ nChunkReads' = nChunkReads + 1
        /\ lastChunkRead' = [offset |-> offset, len |-> OUTPUT_CHUNK]
        /\ IF ~r.ok
           THEN /\ Propagate(r, pc)
                /\ UNCHANGED <<i, output>>
           ELSE /\ output' = Append(output, r.val)
                /\ failures' = failures
                /\ IF i + 1 < OutputChunks
                   THEN /\ i' = i + 1
                        /\ UNCHANGED <<pc, result>>
                   ELSE /\ i' = i
                        /\ pc' = "done"
                        /\ result' = Ok(output')
    /\ UNCHANGED <<session, metrics, counterLog, apart, op, input, writes, regReads, nIdleReads, lastStatus,
                   lastCode, nChunkWrites, lastChunkWrite>>

----
(* get_performance_metrics *)

\* the fields read in the order of their offsets, the hits taken for the
\* misses and the misses for the hits
CounterReads_HitsMissesSwapped ==
    <<[offset |-> 0, field |-> "total_bytes_processed"],
      [offset |-> 4, field |-> "compressed_bytes"],
      [offset |-> 8, field |-> "cycles"],
      [offset |-> 12, field |-> "misses"],
      [offset |-> 16, field |-> "hits"]>>

\* the five statements metrics.<field> = self.read_register(
\* self.registers.performance_counters + <offset>)?, in program order
CounterReads ==
    <<[offset |-> 0, field |-> "total_bytes_processed"],
      [offset |-> 4, field |-> "compressed_bytes"],
      [offset |-> 8, field |-> "cycles"],
      [offset |-> 12, field |-> "hits"],
      [offset |-> 16, field |-> "misses"]>>

\* metrics.<field> = v
Assign(m, field, v) ==
    CASE field = "total_bytes_processed" -> [m EXCEPT !.total_bytes_processed = v]
      [] field = "compressed_bytes" -> [m EXCEPT !.compressed_bytes = v]
      [] field = "cycles" -> [m EXCEPT !.cycles = v]
      [] field = "hits" -> [m EXCEPT !.cache_metrics.hits = v]
      [] field = "misses" -> [m EXCEPT !.cache_metrics.misses = v]

\* metrics.calculate_compression_ratio();
\* metrics.cache_metrics.calculate_hit_ratio(); Ok(metrics)
DerivedMetrics(m) ==
    LET n == calculate_compression_ratio(m) IN
    {IF c.ok THEN Ok([n EXCEPT !.cache_metrics = c.val]) ELSE c :
        c \in calculate_hit_ratio(n.cache_metrics)}

\* let mut metrics = PerformanceMetrics::default()
MetricsEntry ==
    /\ pc = "idle"
    /\ op' = "get_performance_metrics"
    /\ input' = None
    /\ result' = Pending
    /\ pc' = "counters"
    /\ metrics' = default_metrics
    /\ counterLog' = <<>>
    /\ NoAccessYet

\* statement i + 1 of the five; after the last one the derived values
CounterStep ==
    /\ pc = "counters"
    /\ LET rd == CounterReads[i + 1]
           offset == registers.performance_counters + rd.offset
       IN  \E r \in read_register(offset) :
            /\ regReads' = CountRead(offset)
            /\ IF ~r.ok
               THEN /\ Propagate(r, pc)
                    /\ UNCHANGED <<i, metrics, counterLog>>
               ELSE /\ counterLog' = Append(counterLog, [offset |-> offset, value |-> r.val])
                    /\ metrics' = Assign(metrics, rd.field, r.val)
                    /\ failures' = failures
                    /\ IF i + 1 < Len(CounterReads)
                       THEN /\ i' = i + 1
                            /\ UNCHANGED <<pc, result>>
                       ELSE /\ i' = 0
                            /\ pc' = "done"
                            /\ result' \in DerivedMetrics(metrics')
    /\ UNCHANGED <<op, input, output, writes, nIdleReads, lastStatus, lastCode,
                   nChunkWrites, lastChunkWrite, nChunkReads, lastChunkRead>>

\* a call that moves the counter base of the session as it goes
get_performance_metrics_Rebased ==
    /\ (MetricsEntry \/ CounterStep)
    /\ registers' = [registers EXCEPT !.performance_counters = @ + 4]
    /\ UNCHANGED <<config, transfer_strategy, apart>>

get_performance_metrics ==
    /\ (MetricsEntry \/ CounterStep)
    /\ UNCHANGED <<session, apart>>

----
(* The caller *)

\* the call has returned; the caller takes the result and the session is
\* free for its next call
Return ==
    /\ pc = "done"
    /\ pc' = "idle"
    /\ op' = "none"
    /\ input' = None
    /\ result' = Pending
    /\ NoAccessYet
    /\ metrics' = default_metrics
    /\ counterLog' = <<>>
    /\ UNCHANGED <<session, apart>>

----
(* The specifications *)

Next ==
    \/ \E in \in Inputs : compress(in)
    \/ \E in \in Inputs : decompress(in)
    \/ reset
    \/ transfer_input_data
    \/ transfer_compressed_data
    \/ start_compression
    \/ start_decompression
    \/ wait_for_completion
    \/ read_output_data
    \/ get_performance_metrics
    \/ Return

\* a session made by PcieDevice::new
Spec == Init /\ [][Next]_vars

\* a session with any strategy
SpecAnyStrategy == InitAnyStrategy /\ [][Next]_vars

TypeOK ==
    /\ pc \in {"idle", "reset_set", "reset_clear", "load", "start", "poll",
               "error_code", "read", "counters", "done"}
    /\ op \in {"none", "compress", "decompress", "get_performance_metrics"}
    /\ transfer_strategy \in TransferStrategy
    /\ i \in 0 .. BLOCK_SIZE
    /\ failures \in {0, 1}

----
(* Functions and tests run apart from a device call *)

\* the session as PcieDevice::new leaves it, no call made
DeviceIdle ==
    /\ config = new_config
    /\ registers = new_registers
    /\ transfer_strategy = "Mmio"
    /\ op = "none" /\ input = None /\ pc = "idle" /\ i = 0 /\ output = <<>>
    /\ result = Pending /\ writes = <<>> /\ regReads = <<>> /\ nIdleReads = 0
    /\ lastStatus = <<>> /\ lastCode = <<>> /\ nChunkWrites = 0
    /\ lastChunkWrite = None /\ nChunkReads = 0 /\ lastChunkRead = None
    /\ failures = 0 /\ metrics = default_metrics /\ counterLog = <<>>

\* the variants that carry a String
StringVariants ==
    {"DeviceInitError", "TransferError", "ProcessingError", "InputValidationError"}

\* the variants that carry nothing
UnitVariants == {"DeviceAccessError", "TimeoutError", "CrcError"}

\* the messages the driver makes with format!
FormattedMessages ==
    {Format("Input size must be 32KB. Current size: ", n) : n \in InputLens}
        \cup {ProcessingMessage(v) : v \in RegisterValues}

\* the messages the driver takes from literals
LiteralMessages ==
    {"Compressed data is empty", "Unsupported transfer strategy",
     "No LZMA2 FPGA devices found", "No LZMA2 compression devices found"}

\* is_recoverable is applied to an error of any variant, with any message
InitRecoverable ==
    /\ DeviceIdle
    /\ ret = <<>>
    /\ \/ args \in [fn : {"is_recoverable"},
                    err : [kind : StringVariants, ctx : FormattedMessages]]
       \/ args \in [fn : {"is_recoverable"},
                    err : [kind : StringVariants, ctx : LiteralMessages]]
       \/ args \in [fn : {"is_recoverable"},
                    err : [kind : UnitVariants, ctx : {None}]]

\* let r = err.is_recoverable()
RecoverableCall ==
    /\ args.fn = "is_recoverable"
    /\ ret = <<>>
    /\ ret' = <<is_recoverable(args.err)>>
    /\ UNCHANGED <<device, args>>

SpecRecoverable == InitRecoverable /\ [][RecoverableCall]_vars

\* 2^64 - 1
U64Max == 0 .. (U64_BITS - 1)

\* the counter values calculate_hit_ratio is applied to: small ones, and
\* ones whose sums pass 2^64 - 1
U64Samples ==
    {Zero, Bit(0), Bit(1), BitOr(Bit(0), Bit(1)), Bit(32), Bit(U64_BITS - 1),
     BitOr(Bit(U64_BITS - 1), Bit(0)), U64Max \ Bit(0), U64Max}

\* a CacheMetrics value with any hits and misses
InitHitRatio ==
    /\ DeviceIdle
    /\ ret = <<>>
    /\ args \in [fn : {"calculate_hit_ratio"}, hits : U64Samples, misses : U64Samples]

\* cache.calculate_hit_ratio()
HitRatioCall ==
    /\ args.fn = "calculate_hit_ratio"
    /\ ret = <<>>
    /\ \E out \in calculate_hit_ratio([hits |-> args.hits, misses |-> args.misses,
                                       hit_ratio |-> F32Zero]) :
        ret' = <<out>>
    /\ UNCHANGED <<device, args>>

SpecHitRatio == InitHitRatio /\ [][HitRatioCall]_vars

\* the bytes the slices are made of
SliceBytes == {0, 1, 2, 255}

\* the slices pad_or_truncate is applied to: every short one, and the
\* five-byte one of test_byte_slice_ext
Slices ==
    UNION {[1 .. n -> SliceBytes] : n \in 0 .. MaxSliceLen} \cup {<<1, 2, 3, 4, 5>>}

InitPad ==
    /\ DeviceIdle
    /\ ret = <<>>
    /\ args \in [fn : {"pad_or_truncate"}, slice : Slices, length : 0 .. MaxTargetLen]

\* let v = slice.pad_or_truncate(length)
PadCall ==
    /\ args.fn = "pad_or_truncate"
    /\ ret = <<>>
    /\ ret' = <<pad_or_truncate(args.slice, args.length)>>
    /\ UNCHANGED <<device, args>>

SpecPad == InitPad /\ [][PadCall]_vars

\* byte counts record_transfer is called with: none, the 1 000 000 of
\* test_transfer_statistics, and counts whose sums pass 2^64 - 1
ByteSamples == {Zero, FromNat(1000000), Bit(U64_BITS - 1), U64Max}

\* durations: zero, the 100 ms of test_transfer_statistics, one second, and
\* the longest one
DurationSamples ==
    {ZeroDuration, Duration(Zero, 100000000), Duration(Bit(0), 0), MaxDuration}

\* let mut stats = TransferStatistics::new()
InitStatistics ==
    /\ DeviceIdle
    /\ args = [fn |-> "record_transfer", calls |-> <<>>]
    /\ ret = <<Ok(default_transfer_metrics)>>

\* stats.record_transfer(bytes, duration)
RecordCall ==
    /\ args.fn = "record_transfer"
    /\ Len(args.calls) < MaxCalls
    /\ ret[1].ok
    /\ \E bytes \in ByteSamples, duration \in DurationSamples :
        /\ args' = [args EXCEPT !.calls =
                        Append(@, [bytes |-> bytes, duration |-> duration])]
        /\ \E out \in record_transfer(ret[1].val, bytes, duration) : ret' = <<out>>
    /\ UNCHANGED device

SpecStatistics == InitStatistics /\ [][RecordCall]_vars

\* tests::test_compression_roundtrip: let device = PcieDevice::new()?;
\* let original_data = vec![0u8; 32 * 1024]
InitRoundTrip ==
    /\ DeviceIdle
    /\ ret = <<>>
    /\ args = [fn |-> "test_compression_roundtrip", stage |-> "compress",
               original_data |-> [len |-> 32 * 1024, fill |-> "zeros"],
               compressed |-> <<>>]

\* the test makes the call of its stage
TestCall ==
    /\ args.fn = "test_compression_roundtrip"
    /\ ret = <<>>
    /\ pc = "idle"
    /\ CASE args.stage = "compress" -> compress(args.original_data)
         [] args.stage = "decompress" ->
                \E in \in Inputs :
                    /\ in.len = BufLen(args.compressed)
                    /\ decompress(in)
         [] args.stage = "metrics" -> get_performance_metrics

\* the call has returned: `?` ends the test with the call's error; after
\* decompress, assert_eq! compares the bytes the device gave with the
\* original ones and panics when they differ
TestReturn ==
    /\ args.fn = "test_compression_roundtrip"
    /\ ret = <<>>
    /\ pc = "done"
    /\ IF ~result.ok
       THEN ret' = <<result>> /\ args' = args
       ELSE CASE args.stage = "compress" ->
                    /\ args' = [args EXCEPT !.stage = "decompress",
                                            !.compressed = result.val]
                    /\ ret' = ret
              [] args.stage = "decompress" ->
                    \E same \in BOOLEAN :
                        /\ same => BufLen(result.val) = args.original_data.len
                        /\ IF same
                           THEN args' = [args EXCEPT !.stage = "metrics"] /\ ret' = ret
                           ELSE /\ args' = args
                                /\ ret' = <<Panic("Data mismatch after compression/decompression")>>
              [] args.stage = "metrics" ->
                    /\ args' = args
                    /\ ret' = <<Ok("unit")>>
    /\ pc' = "idle"
    /\ op' = "none"
    /\ input' = None
    /\ result' = Pending
    /\ NoAccessYet
    /\ metrics' = default_metrics
    /\ counterLog' = <<>>
    /\ UNCHANGED session

NextRoundTrip ==
    \/ TestCall
    \/ reset
    \/ transfer_input_data
    \/ transfer_compressed_data
    \/ start_compression
    \/ start_decompression
    \/ wait_for_completion
    \/ read_output_data
    \/ (pc = "counters" /\ get_performance_metrics)
    \/ TestReturn

SpecRoundTrip == InitRoundTrip /\ [][NextRoundTrip]_vars

----
(* Claims *)

\* the calls that drive the device
DeviceCalls == {"compress", "decompress"}

\* the call's result is an error of the given kind
Failed(kind) == ~result.ok /\ ~result.pending /\ result.err.kind = kind

\* ceil(n / d)
CeilDiv(n, d) == IF n % d = 0 THEN n \div d ELSE (n \div d) + 1

\* C1: compress of a buffer whose length is not 32768 returns
\* InputValidationError and calls no primitive of the port at all.
C1_CompressRejectsWrongSize ==
    (op = "compress" /\ input.len # 32768) =>
        /\ pc = "done"
        /\ Failed("InputValidationError")
        /\ Accesses = 0
        /\ failures = 0

C1_Witness ==
    /\ op = "compress"
    /\ input.len = 32769
    /\ pc = "done"
    /\ Failed("InputValidationError")
    /\ ParseDecimal(result.err.ctx.digits) = 32769

\* C2: decompress of an empty buffer returns InputValidationError and calls
\* no primitive; a non-empty buffer never fails validation: its call goes on
\* to the reset, and whatever it returns is no InputValidationError.
C2_DecompressRejectsEmpty ==
    (op = "decompress") =>
        IF input.len = 0
        THEN /\ pc = "done"
             /\ Failed("InputValidationError")
             /\ Accesses = 0
        ELSE /\ ~Failed("InputValidationError")
             /\ pc = "done" => Len(writes) >= 1

C2_Witness ==
    /\ op = "decompress"
    /\ input.len = 0
    /\ pc = "done"
    /\ Failed("InputValidationError")
    /\ Accesses = 0

\* reset, load and start have succeeded and every status read so far has
\* returned a value with neither bit 0 nor bit 16
OnlyIdleStatus ==
    /\ op \in {"compress", "decompress"}
    /\ Len(writes) = 3
    /\ failures = 0
    /\ nIdleReads = Reads(registers.status)

\* C3: when reset, load and start succeed and every status read returns
\* neither bit 0 nor bit 16, the call ends in TimeoutError after exactly 1000
\* status reads, having read neither status + 4 nor any output chunk; it
\* never makes a 1001st status read.
C3_TimeoutAfter1000Polls ==
    /\ Reads(registers.status) <= 1000
    /\ OnlyIdleStatus =>
        /\ Reads(registers.status + 4) = 0
        /\ nChunkReads = 0
        /\ pc \in {"poll", "done"}
        /\ pc = "poll" => Reads(registers.status) < 1000
        /\ pc = "done" => /\ result = Err(TimeoutError)
                          /\ Reads(registers.status) = 1000

C3_Witness ==
    /\ OnlyIdleStatus
    /\ pc = "done"
    /\ Failed("TimeoutError")
    /\ Reads(registers.status) = 1000
    /\ Accesses = 3 + NumChunks(input.len, 32) + 1000
    /\ op = "decompress"

\* the first status read of the call returned a value with bit 0 set and no
\* other status read has been made
CompletedOnFirstPoll ==
    /\ Reads(registers.status) = 1
    /\ lastStatus # <<>>
    /\ 0 \in lastStatus[1]

\* C4: when the first status read after the start write has bit 0 set, the
\* call makes no other status read (and no read of status + 4): what follows
\* is the reading of the output.
C4_OnePollWhenComplete ==
    /\ [](CompletedOnFirstPoll =>
            /\ pc \in {"read", "done"}
            /\ Reads(registers.status + 4) = 0
            /\ nChunkReads = 0 => pc = "read"
            /\ pc = "done" => (result.ok \/ Failed("DeviceAccessError")))
    /\ [][CompletedOnFirstPoll =>
            \/ pc' = "idle"
            \/ /\ regReads' = regReads
               /\ nChunkReads' = nChunkReads + 1
               /\ lastChunkRead'.offset >= registers.output_data]_vars

C4_Witness ==
    /\ CompletedOnFirstPoll
    /\ 16 \in lastStatus[1]
    /\ pc = "done"
    /\ result.ok
    /\ nChunkReads = 128

\* status reads 1 .. N-1 returned neither bit, status read N returned bit 16
\* set and bit 0 clear
ErrorOnLastPoll ==
    /\ lastStatus # <<>>
    /\ 16 \in lastStatus[1]
    /\ 0 \notin lastStatus[1]
    /\ nIdleReads + 1 = Reads(registers.status)

\* C5: when status reads 1 .. N-1 show neither bit and read N (N <= 1000)
\* shows bit 16 without bit 0, the call reads status + 4 exactly once and,
\* that read returning E, ends in ProcessingError with the message
\* "Processing error: Error code E"; it made exactly N status reads and read
\* no output chunk.
C5_ErrorCodeInProcessingError ==
    ErrorOnLastPoll =>
        /\ Reads(registers.status) \in 1 .. 1000
        /\ nChunkReads = 0
        /\ pc \in {"error_code", "done"}
        /\ pc = "error_code" => Reads(registers.status + 4) = 0
        /\ pc = "done" =>
            /\ Reads(registers.status + 4) = 1
            /\ failures = 0 =>
                /\ lastCode # <<>>
                /\ Failed("ProcessingError")
                /\ result.err.ctx.text = "Processing error: Error code "
                /\ ParseDecimal(result.err.ctx.digits) = ToNat(lastCode[1])

C5_Witness ==
    /\ ErrorOnLastPoll
    /\ pc = "done"
    /\ Reads(registers.status) = 1000
    /\ Reads(registers.status + 4) = 1
    /\ Failed("ProcessingError")
    /\ lastCode = <<{0, 16}>>
    /\ result.err.ctx.digits = <<6, 5, 5, 3, 7>>

\* C6: a successful compress or decompress returns exactly 32768 bytes, read
\* by exactly 128 chunk reads of 256 bytes, the k-th at output_data +
\* (k - 1) * 256, whatever the operation and the input length.
C6_OutputIs128ChunksOf256 ==
    /\ nChunkReads <= 128
    /\ nChunkReads > 0 =>
        lastChunkRead = [offset |-> registers.output_data + (nChunkReads - 1) * 256,
                         len |-> 256]
    /\ (op \in DeviceCalls /\ pc = "done" /\ result.ok) =>
        /\ nChunkReads = 128
        /\ BufLen(result.val) = 32768
        /\ Len(result.val) = 128
        /\ \A k \in 1 .. 128 :
            result.val[k] = [offset |-> registers.output_data + (k - 1) * 256,
                             len |-> 256]

C6_Witness ==
    /\ pc = "done"
    /\ result.ok
    /\ op = "decompress"
    /\ input.len = 1
    /\ nChunkReads = 128
    /\ BufLen(result.val) = 32768
    /\ lastChunkRead.offset = 12 + 127 * 256

\* the load phase of the call is over and every chunk write succeeded
Loaded ==
    \/ pc \in {"start", "poll", "error_code", "read"}
    \/ pc = "done" /\ Len(writes) = 3

\* C7: decompress of n >= 1 bytes under the memory-mapped strategy writes
\* exactly ceil(n / 32) chunks, the k-th at input_data + (k - 1) * 32, each of
\* exactly 32 bytes: the input bytes of that range followed by zeros; no
\* write offset exceeds input_data + ceil(n / 32) * 32.
C7_DecompressChunksPadded ==
    (op = "decompress" /\ transfer_strategy = "Mmio") =>
        /\ nChunkWrites <= CeilDiv(input.len, 32)
        /\ Loaded => nChunkWrites = CeilDiv(input.len, 32)
        /\ nChunkWrites > 0 =>
            LET k == nChunkWrites - 1
                w == lastChunkWrite
            IN  /\ w.offset = registers.input_data + k * 32
                /\ w.offset <= registers.input_data + CeilDiv(input.len, 32) * 32
                /\ Len(w.data) = 32
                /\ \A j \in 1 .. 32 :
                    w.data[j] = IF 32 * k + j - 1 < input.len
                                THEN InputByte(input, 32 * k + j - 1)
                                ELSE 0

C7_Witness ==
    /\ op = "decompress"
    /\ input = [len |-> 33, fill |-> "ramp"]
    /\ pc = "start"
    /\ nChunkWrites = 2
    /\ lastChunkWrite.offset = 8 + 32
    /\ lastChunkWrite.data[1] = 33
    /\ lastChunkWrite.data[2] = 0
    /\ Len(lastChunkWrite.data) = 32

\* C8: compress of a valid input under the memory-mapped strategy writes
\* exactly 128 chunks of exactly 256 bytes, the k-th at input_data +
\* (k - 1) * 256 carrying the input bytes of that range, in ascending order
\* and without padding.
C8_CompressChunksOf256 ==
    (op = "compress" /\ transfer_strategy = "Mmio") =>
        /\ nChunkWrites <= 128
        /\ Loaded => nChunkWrites = 128
        /\ nChunkWrites > 0 =>
            LET k == nChunkWrites - 1
                w == lastChunkWrite
            IN  /\ input.len = 32768
                /\ w.offset = registers.input_data + k * 256
                /\ Len(w.data) = 256
                /\ \A j \in 1 .. 256 : w.data[j] = InputByte(input, 256 * k + j - 1)

C8_Witness ==
    /\ op = "compress"
    /\ input.fill = "ramp"
    /\ pc = "start"
    /\ nChunkWrites = 128
    /\ lastChunkWrite.offset = 8 + 127 * 256
    /\ Len(lastChunkWrite.data) = 256
    /\ lastChunkWrite.data[256] = (32767 % 251) + 1

\* C9: under the direct-memory-access and streaming strategies the transfer
\* request of a compress or decompress call fails at once with
\* TransferError: after the reset the call writes no input chunk and no start
\* command and reads neither the status nor the output.
C9_UnsupportedStrategyFails ==
    (transfer_strategy # "Mmio" /\ op \in DeviceCalls) =>
        /\ nChunkWrites = 0
        /\ Len(writes) <= 2
        /\ \A k \in 1 .. Len(writes) : writes[k].value \in {{31}, {}}
        /\ regReads = <<>>
        /\ nChunkReads = 0
        /\ pc \in {"idle", "reset_set", "reset_clear", "load", "done"}
        /\ (pc = "done" /\ Len(writes) = 2 /\ failures = 0) =>
            result = Err(TransferError("Unsupported transfer strategy"))

C9_Witness ==
    /\ transfer_strategy = "Streaming"
    /\ op = "decompress"
    /\ input.len = 1
    /\ pc = "done"
    /\ Failed("TransferError")
    /\ Len(writes) = 2
    /\ Accesses = 2

\* a write of the reset step has failed
ResetWriteFailed ==
    /\ op \in DeviceCalls
    /\ failures > 0
    /\ Len(writes) <= 2
    /\ nChunkWrites = 0

\* C10 as stated: a failed write of the reset step makes the call fail with
\* TransferError, with no further register access.
C10_ResetFailureIsTransferError ==
    ResetWriteFailed =>
        /\ pc = "done"
        /\ Failed("TransferError")
        /\ Accesses = Len(writes)

\* C10, amended: a failed write of the reset step (the write of bit 31 or the
\* write of zero) makes the call fail with the write's own error,
\* DeviceAccessError, with no further register access in that call.
C10_ResetFailureIsDeviceAccessError ==
    ResetWriteFailed =>
        /\ pc = "done"
        /\ result = Err(DeviceAccessError)
        /\ failures = 1
        /\ Accesses = Len(writes)
        /\ writes[1].value = {31}
        /\ Len(writes) = 2 => writes[2].value = {}

C10_Witness ==
    /\ ResetWriteFailed
    /\ pc = "done"
    /\ Len(writes) = 2
    /\ writes[2] = [offset |-> 0, value |-> {}]
    /\ Failed("DeviceAccessError")
    /\ op = "compress"

\* the control writes of the current call that carry the value v
RECURSIVE ControlWrites(_, _)
ControlWrites(ws, v) ==
    IF ws = <<>> THEN 0
    ELSE ControlWrites(Tail(ws), v) + (IF Head(ws).value = v THEN 1 ELSE 0)

\* C11: at most one primitive call of a compress or decompress call fails;
\* the call then has returned exactly the error of that primitive
\* (DeviceAccessError, not wrapped, not translated), the call is over, so the
\* failed access is its last one and is not made again, and the reset value
\* was written at most once.
C11_FirstFailureEndsCall ==
    op \in DeviceCalls =>
        /\ failures <= 1
        /\ ControlWrites(writes, Bit(RESET_BIT)) <= 1
        /\ failures = 1 =>
                /\ pc = "done"
                /\ result = Err(DeviceAccessError)

\* the third output chunk read fails, after every access before it succeeded
C11_Witness ==
    /\ op = "compress"
    /\ failures = 1
    /\ nChunkReads = 3
    /\ Len(output) = 2
    /\ result = Err(DeviceAccessError)

\* C12: is_recoverable is defined for every error, depends on the variant
\* alone, and is true exactly for TransferError and TimeoutError; so a
\* validation error is not recoverable and a timeout is.
C12_RecoverableByKind ==
    (args.fn = "is_recoverable" /\ ret # <<>>) =>
        /\ ret[1] \in BOOLEAN
        /\ ret[1] <=> args.err.kind \in {"TransferError", "TimeoutError"}
        /\ args.err.kind = "InputValidationError" => ~ret[1]
        /\ args.err.kind = "TimeoutError" => ret[1]

\* a transfer error was classified
C12_Witness ==
    /\ args.fn = "is_recoverable"
    /\ args.err.kind = "TransferError"
    /\ ret = <<TRUE>>

\* the counter reads the port has answered so far are reads 1 .. n of the
\* program, and each field holds the value its read returned
CountersInOrder(n) ==
    /\ Len(counterLog) = n
    /\ \A k \in 1 .. n :
        counterLog[k].offset = registers.performance_counters + 4 * (k - 1)
    /\ n >= 1 => metrics.total_bytes_processed = counterLog[1].value
    /\ n >= 2 => metrics.compressed_bytes = counterLog[2].value
    /\ n >= 3 => metrics.cycles = counterLog[3].value
    /\ n >= 4 => metrics.cache_metrics.hits = counterLog[4].value
    /\ n >= 5 => metrics.cache_metrics.misses = counterLog[5].value

\* C13: get_performance_metrics reads the registers at performance_counters
\* + 0, + 4, + 8, + 12, + 16, each once and in this order, into
\* total_bytes_processed, compressed_bytes, cycles, hits, misses and touches
\* nothing else; when a read fails the call returns that error, makes no
\* later read and returns no metrics.
C13_FiveCounterReadsInOrder ==
    op = "get_performance_metrics" =>
        /\ Len(writes) = 0 /\ nChunkWrites = 0 /\ nChunkReads = 0
        /\ \E n \in 0 .. 5 :
            /\ CountersInOrder(n)
            /\ DOMAIN regReads =
                {registers.performance_counters + 4 * (k - 1) :
                    k \in 1 .. (n + failures)}
            /\ \A o \in DOMAIN regReads : regReads[o] = 1
            /\ n + failures <= 5
            /\ n < 5 => (pc = "counters" /\ failures = 0 /\ i = n)
                            \/ (pc = "done" /\ failures = 1)
            /\ (pc = "done" /\ failures = 0) => (n = 5 /\ result.ok)
        /\ failures = 1 => result = Err(DeviceAccessError)
        /\ (pc = "done" /\ result.ok) =>
            /\ failures = 0
            /\ result.val.total_bytes_processed = counterLog[1].value
            /\ result.val.compressed_bytes = counterLog[2].value
            /\ result.val.cycles = counterLog[3].value
            /\ result.val.cache_metrics.hits = counterLog[4].value
            /\ result.val.cache_metrics.misses = counterLog[5].value

\* the fourth read fails after three reads that returned different values
C13_Witness ==
    /\ op = "get_performance_metrics"
    /\ pc = "done"
    /\ failures = 1
    /\ Len(counterLog) = 3
    /\ counterLog[1].value # counterLog[2].value
    /\ Reads(registers.performance_counters + 12) = 1
    /\ Reads(registers.performance_counters + 16) = 0
    /\ result = Err(DeviceAccessError)

\* hits + misses as a number, not cut to 64 bits
ExactTotal == AddBits(args.hits, args.misses, U64_BITS + 1)

\* the sum of the two counters does not fit a u64
TotalPassesU64 == U64_BITS \in ExactTotal

\* C14 as stated: for all u64 hits and misses, the pairs whose sum passes
\* 2^64 - 1 included, calculate_hit_ratio returns and leaves hit_ratio =
\* hits / (hits + misses) when hits + misses > 0 and 0.0 otherwise; the ratio
\* is 0 only when hits = 0, and it lies in [0, 1].
C14_HitRatioForAllCounters ==
    (args.fn = "calculate_hit_ratio" /\ ret # <<>>) =>
        /\ ret[1].ok
        /\ ret[1].val.hit_ratio =
                (IF ExactTotal # Zero THEN Quot(args.hits, ExactTotal) ELSE F32Zero)
        /\ ExactTotal # Zero =>
                (IsZero(ret[1].val.hit_ratio) => args.hits = Zero)
        /\ InUnitInterval(ret[1].val.hit_ratio)

\* C14, what the code does: when the sum fits a u64 the ratio is as stated;
\* when it does not, the call panics or takes the sum modulo 2^64 for the
\* total.
C14_HitRatioWrapsOrPanics ==
    (args.fn = "calculate_hit_ratio" /\ ret # <<>>) =>
        IF ~TotalPassesU64
        THEN /\ ret[1].ok
             /\ ret[1].val.hit_ratio =
                    (IF ExactTotal # Zero THEN Quot(args.hits, ExactTotal) ELSE F32Zero)
             /\ InUnitInterval(ret[1].val.hit_ratio)
        ELSE \/ ret[1] = Panic("attempt to add with overflow")
             \/ /\ ret[1].ok
                /\ ret[1].val.hit_ratio =
                    (IF ExactTotal \ Bit(U64_BITS) # Zero
                     THEN Quot(args.hits, ExactTotal \ Bit(U64_BITS))
                     ELSE F32Zero)

\* hits = misses = 2^63: the sum is 2^64, the total wraps to 0 and the ratio
\* left is 0.0 although hits is not 0
C14_Witness ==
    /\ args.fn = "calculate_hit_ratio"
    /\ args.hits = Bit(U64_BITS - 1)
    /\ args.misses = Bit(U64_BITS - 1)
    /\ ret # <<>>
    /\ ret[1].ok
    /\ IsZero(ret[1].val.hit_ratio)

\* C15 as stated: for the 32768-byte input of the test, compress returns Ok,
\* decompress of the compressed result returns Ok with a buffer equal to the
\* original, and get_performance_metrics then returns Ok: the test ends by
\* returning Ok(()).
C15_RoundTripSucceeds ==
    (args.fn = "test_compression_roundtrip" /\ ret # <<>>) => ret[1].ok

\* a compress or decompress call is between its entry and its return
InFlight == op \in DeviceCalls /\ pc \notin {"idle", "done"}

C17_PadOrTruncate ==
    (args.fn = "pad_or_truncate" /\ ret # <<>>) =>
        /\ Len(ret[1]) = args.length
        /\ \A k \in 1 .. args.length :
            ret[1][k] = IF k <= Len(args.slice) THEN args.slice[k] ELSE 0
        /\ (args.slice = <<1, 2>> /\ args.length = 5) => ret[1] = <<1, 2, 0, 0, 0>>
        /\ (args.slice = <<1, 2, 3, 4, 5>> /\ args.length = 3) => ret[1] = <<1, 2, 3>>

\* the padding example of the test
C17_Witness ==
    /\ args.fn = "pad_or_truncate"
    /\ args.slice = <<1, 2>>
    /\ args.length = 5
    /\ ret = << <<1, 2, 0, 0, 0>> >>

\* the value of the k-th control write of a call: 2^31, 0, the start value
ControlValue(k) ==
    CASE k = 1 -> {31}
      [] k = 2 -> {}
      [] k = 3 -> IF op = "compress" THEN {0} ELSE {0, 16}

\* the input chunk writes a call makes: 256 bytes each for compress, 32 for
\* decompress
InputChunkWrites ==
    IF op = "compress" THEN CeilDiv(input.len, 256) ELSE CeilDiv(input.len, 32)

\* C18: in a compress or decompress call that passed validation the accesses
\* come in the phase order control = 2^31, control = 0, all input chunk
\* writes, one control write of the start value (1 for compress, 0x10001 for
\* decompress), status reads, output chunk reads; an access is made only
\* when every access before it has succeeded and the phases before its own
\* are complete.
C18_PhaseOrder ==
    [][(op \in DeviceCalls /\ op' = op /\ pc # "done") =>
        /\ Accesses' > Accesses => failures = 0
        /\ Len(writes') > Len(writes) =>
            /\ Len(writes') = Len(writes) + 1
            /\ Len(writes') <= 3
            /\ writes'[Len(writes')] =
                    [offset |-> registers.control, value |-> ControlValue(Len(writes'))]
            /\ nChunkWrites = (IF Len(writes') = 3 THEN InputChunkWrites ELSE 0)
            /\ regReads = <<>>
            /\ nChunkReads = 0
        /\ nChunkWrites' > nChunkWrites =>
            /\ Len(writes) = 2
            /\ nChunkWrites < InputChunkWrites
            /\ regReads = <<>>
            /\ nChunkReads = 0
        /\ regReads' # regReads =>
            /\ Len(writes) = 3
            /\ nChunkWrites = InputChunkWrites
            /\ nChunkReads = 0
        /\ nChunkReads' > nChunkReads =>
            /\ Len(writes) = 3
            /\ nChunkWrites = InputChunkWrites
            /\ Reads(registers.status) >= 1
            /\ lastStatus # <<>> /\ 0 \in lastStatus[1]
      ]_vars

\* a decompress call in its last phase: the three control writes, the two
\* chunk writes of a 33-byte input, status reads, then output reads
C18_Witness ==
    /\ op = "decompress"
    /\ input.len = 33
    /\ writes = <<[offset |-> 0, value |-> {31}], [offset |-> 0, value |-> {}],
                  [offset |-> 0, value |-> {0, 16}]>>
    /\ nChunkWrites = 2
    /\ Reads(registers.status) = 2
    /\ nChunkReads = 7

\* the last status read of the call returned a value with bit 0 set
CompletionSeen == lastStatus # <<>> /\ 0 \in lastStatus[1]

\* C19: the output window is read only in a call in which a status read
\* returned a value with bit 0 set; a call that ends in TimeoutError, in
\* ProcessingError or in a failed access before completion has made no read
\* of the output window, and a call that did not return Ok returns no buffer.
C19_OutputOnlyAfterCompletion ==
    op \in DeviceCalls =>
        /\ nChunkReads > 0 => CompletionSeen
        /\ nChunkReads > 0 => Reads(registers.status) >= 1
        /\ (pc = "done" /\ (Failed("TimeoutError") \/ Failed("ProcessingError"))) =>
                nChunkReads = 0 /\ output = <<>>
        /\ (pc = "done" /\ failures = 1 /\ ~CompletionSeen) =>
                nChunkReads = 0 /\ output = <<>>
        /\ (pc = "done" /\ result.ok) => CompletionSeen /\ result.val = output

\* a call ended by the error bit on its third poll, without any output read
C19_Witness ==
    /\ op = "compress"
    /\ pc = "done"
    /\ Failed("ProcessingError")
    /\ Reads(registers.status) = 3
    /\ nChunkReads = 0

\* the sum of the byte counts of the calls, as a number
RECURSIVE SumOfBytes(_)
SumOfBytes(calls) ==
    IF calls = <<>> THEN Zero
    ELSE WideAdd(SumOfBytes(SubSeq(calls, 1, Len(calls) - 1)), calls[Len(calls)].bytes)

\* the sum of the durations of the calls
RECURSIVE SumOfDurations(_)
SumOfDurations(calls) ==
    IF calls = <<>> THEN ZeroDuration
    ELSE DurationSum(SumOfDurations(SubSeq(calls, 1, Len(calls) - 1)),
                     calls[Len(calls)].duration)

\* the bandwidth is that of the last call alone
BandwidthOfLastCall(m) ==
    LET last == args.calls[Len(args.calls)]
    IN  IF last.duration = ZeroDuration
        THEN m.bandwidth.bytes = Zero
        ELSE m.bandwidth = Rate(last.bytes, last.duration)

\* C20 as stated: after any n calls of record_transfer on a new
\* TransferStatistics the chunk count is n, total_bytes is the sum of the
\* byte counts, transfer_time is the sum of the durations, and the bandwidth
\* is that of the last call: 0 when its duration is zero, bytes / 1e6 /
\* seconds otherwise.
C20_TotalsAreSums ==
    args.fn = "record_transfer" =>
        /\ ret[1].ok
        /\ ret[1].val.chunk_count = Len(args.calls)
        /\ ret[1].val.total_bytes = SumOfBytes(args.calls)
        /\ ret[1].val.transfer_time = SumOfDurations(args.calls)
        /\ Len(args.calls) > 0 => BandwidthOfLastCall(ret[1].val)

\* C20, what the code does: while the sums fit their types the totals are
\* the sums; when the byte sum passes 2^64 - 1 the call panics or the total
\* is the sum modulo 2^64, and when the duration sum passes Duration::MAX
\* the call panics.
C20_TotalsWrapOrPanic ==
    args.fn = "record_transfer" =>
        /\ ret[1].ok =>
            /\ ret[1].val.chunk_count = Len(args.calls)
            /\ ret[1].val.total_bytes = SumOfBytes(args.calls) \cap U64Max
            /\ ret[1].val.transfer_time = SumOfDurations(args.calls)
            /\ Len(args.calls) > 0 => BandwidthOfLastCall(ret[1].val)
        /\ ~ret[1].ok =>
            \/ /\ ret[1] = Panic("attempt to add with overflow")
               /\ ~FitsU64(SumOfBytes(args.calls))
            \/ /\ ret[1] = Panic("overflow when adding durations")
               /\ ~FitsU64(SumOfDurations(args.calls).secs)

\* two calls of 2^63 bytes each: the total has wrapped to 0
C20_Witness ==
    /\ args.fn = "record_transfer"
    /\ Len(args.calls) = 2
    /\ args.calls[1].bytes = Bit(U64_BITS - 1)
    /\ args.calls[2].bytes = Bit(U64_BITS - 1)
    /\ ret[1].ok
    /\ ret[1].val.total_bytes = Zero
    /\ ret[1].val.chunk_count = 2

\* C21: in every reachable state, whatever calls were made and however they
\* ended, the session holds the configuration, the register offsets (control
\* 0x00, status 0x04, input_data 0x08, output_data 0x0C, performance_counters
\* 0x20) and the strategy (memory-mapped) that PcieDevice::new gave it.
C21_SessionFieldsNeverChange ==
    /\ config = [vendor_id |-> 4660, device_id |-> 22136, bar_index |-> 0]
    /\ registers = [control |-> 0, status |-> 4, input_data |-> 8,
                    output_data |-> 12, performance_counters |-> 32]
    /\ transfer_strategy = "Mmio"

\* a get_performance_metrics call that has returned its metrics
C21_Witness ==
    /\ op = "get_performance_metrics"
    /\ pc = "done"
    /\ result.ok
    /\ Len(counterLog) = 5
    /\ registers.performance_counters = 32

\* the last status read of the call returned a value with bit 0 and bit 16
BothBitsSeen == lastStatus # <<>> /\ 0 \in lastStatus[1] /\ 16 \in lastStatus[1]

\* C22: when a status read returns a value with bit 0 and bit 16 both set,
\* the call goes on as completed: it does not read the register at status +
\* 4, it does not fail with ProcessingError, it reads the output back and,
\* unless one of these reads fails, returns it.
C22_BothBitsMeanCompleted ==
    (op \in DeviceCalls /\ BothBitsSeen) =>
        /\ Reads(registers.status + 4) = 0
        /\ lastCode = <<>>
        /\ pc \in {"read", "done"}
        /\ ~Failed("ProcessingError")
        /\ ~Failed("TimeoutError")
        /\ pc = "done" =>
            IF failures = 0
            THEN result.ok /\ nChunkReads = 128 /\ BufLen(result.val) = 32768
            ELSE result = Err(DeviceAccessError) /\ nChunkReads >= 1

\* the second status read returned 0x10001 and the call returned the output
C22_Witness ==
    /\ op = "compress"
    /\ pc = "done"
    /\ lastStatus = <<{0, 16}>>
    /\ Reads(registers.status) = 2
    /\ result.ok
    /\ nChunkReads = 128

\* the byte ranges [a, a + alen) and [b, b + blen) have a byte in common
Overlap(a, alen, b, blen) == a < b + blen /\ b < a + alen

\* the bytes of the last input chunk write have a byte in common with [b, b + blen)
InputWriteTouches(b, blen) ==
    Overlap(lastChunkWrite.offset, Len(lastChunkWrite.data), b, blen)

\* the length of the window read_output_data reads
OutputWindow == 128 * 256

\* C23 as stated: with the session's register map no byte written during
\* the input load coincides with the control register, the status register,
\* the error-code register at status + 4, the output_data window or the
\* performance-counter registers.
C23_InputWritesTouchNothingElse ==
    (op \in DeviceCalls /\ nChunkWrites > 0) =>
        /\ ~InputWriteTouches(registers.control, REGISTER_STRIDE)
        /\ ~InputWriteTouches(registers.status, REGISTER_STRIDE)
        /\ ~InputWriteTouches(registers.status + 4, REGISTER_STRIDE)
        /\ ~InputWriteTouches(registers.output_data, OutputWindow)
        /\ ~InputWriteTouches(registers.performance_counters,
                              COUNTER_REGISTERS * REGISTER_STRIDE)

\* C23, what the code does: the input chunk writes stay clear of the control
\* and status registers, but every one of them falls into the output_data
\* window, and the first one starts at the error-code register (status + 4 =
\* input_data) and covers the first performance counter.
C23_InputWritesFallIntoOtherRanges ==
    (op \in DeviceCalls /\ nChunkWrites > 0) =>
        /\ ~InputWriteTouches(registers.control, REGISTER_STRIDE)
        /\ ~InputWriteTouches(registers.status, REGISTER_STRIDE)
        /\ InputWriteTouches(registers.output_data, OutputWindow)
        /\ nChunkWrites = 1 =>
            /\ lastChunkWrite.offset = registers.status + 4
            /\ InputWriteTouches(registers.performance_counters, REGISTER_STRIDE)

\* the first chunk write of a compress call: 256 bytes from offset 8
C23_Witness ==
    /\ op = "compress"
    /\ nChunkWrites = 1
    /\ lastChunkWrite.offset = 8
    /\ Len(lastChunkWrite.data) = 256
    /\ InputWriteTouches(12, OutputWindow)
    /\ InputWriteTouches(32, 20)

\* the start value of the call in progress
StartValue == IF op = "compress" THEN {0} ELSE {0, 16}

\* C24: a compress or decompress call writes the control register at most
\* three times (2^31, 0, the start value) and writes no register once the
\* start value is written: during polling and output reading, and after the
\* call has ended in TimeoutError or ProcessingError, the last value written
\* to control is the start value.
C24_NoControlWriteAfterStart ==
    op \in DeviceCalls =>
        /\ Len(writes) <= 3
        /\ \A k \in 1 .. Len(writes) : writes[k].offset = registers.control
        /\ (regReads # <<>> \/ nChunkReads > 0) =>
            /\ Len(writes) = 3
            /\ writes[3].value = StartValue
        /\ (pc = "done" /\ (Failed("TimeoutError") \/ Failed("ProcessingError"))) =>
            /\ Len(writes) = 3
            /\ writes[Len(writes)].value = StartValue
            /\ ControlWrites(writes, Bit(RESET_BIT)) = 1
            /\ ControlWrites(writes, Zero) = 1

\* a decompress call ended by the error bit: control still holds 0x10001
C24_Witness ==
    /\ op = "decompress"
    /\ pc = "done"
    /\ Failed("ProcessingError")
    /\ Len(writes) = 3
    /\ writes[3].value = {0, 16}

====
